---- MODULE Spec2Model ----
(***************************************************************************)
(* Model of pieces of the Anki add-on services:                            *)
(*   - AudioService._generate_piper_audio and the Wyoming-over-TCP client  *)
(*     AudioService._synthesize_via_wyoming (src/api/audio_service.py);    *)
(*   - the ImageCache record store with its LRU capacity enforcement       *)
(*     (src/open_notebook/domain/anki.py, src/api/image_service.py).       *)
(*   - the AnkiCard / AnkiDeck validators and AnkiService.create_card,     *)
(*     create_deck and update_card with the edit history                   *)
(*     (src/open_notebook/domain/anki.py, src/api/anki_service.py);        *)
(*   - CEFRService.classify_text and its consensus of the models' votes    *)
(*     (src/api/cefr_service.py);                                          *)
(*   - the cleanup_anki_files command (src/commands/anki_commands.py).     *)
(* Bytes are integers.  A Wyoming header line is abstracted to three       *)
(* bytes <<type, data_length digit, payload_length digit>> followed by the *)
(* newline byte; json.loads is the inverse of that encoding and fails on   *)
(* everything else.                                                        *)
(***************************************************************************)
EXTENDS Integers, Sequences, FiniteSets, TLC

VARIABLES
    \* ---- _generate_piper_audio / _synthesize_via_wyoming ----
    pc,           \* position of the call
    url,          \* AudioService.PIPER_URL
    fileExists,   \* output_path.exists()
    fileBytes,    \* content of output_path
    openSocks,    \* sockets created and not yet closed
    attempts,     \* ports handed to s.connect, in order
    established,  \* number of connect calls that succeeded
    header_bytes, \* the header line being read
    hdr,          \* the parsed header whose blocks are being read
    buf,          \* _read_n's buffer
    collected,    \* the accumulated audio
    wyStatus,     \* how _synthesize_via_wyoming ended: none / returned / raised
    wyResult,     \* its return value
    genStatus,    \* how _generate_piper_audio ended: none / returned / raised
    \* ---- the peer and the bookkeeping the properties read ----
    stream,       \* bytes the peer has formed and the client has not received
    peerClosed,   \* the peer closed its end
    sent,         \* frames the peer has formed
    expected,     \* payload blocks of the frames formed, up to the first audio-stop
    stopSent,     \* the peer formed an audio-stop frame
    wellFormed,   \* every line formed up to the first audio-stop is a header frame
    truncated,    \* the peer closed before delivering all it had formed
    trailing,     \* the peer formed a line after its first audio-stop frame
    stopReason,   \* which exit of the read loop was taken
    declData,     \* sum of data_length over the headers processed
    declPayload,  \* sum of payload_length over the headers processed
    readData,     \* data bytes actually consumed
    lastIo,       \* what the last sendall / recv call did
    delivered,    \* bytes recv handed over while a payload block was read
    stopRead,     \* a header of type audio-stop has been parsed
    idle,         \* timeout periods the client has sat in one recv without a byte
    http,         \* how the probe of Piper's HTTP API ended: none / ok / failed
    \* ---- ImageCache ----
    cache,        \* the image_cache table: a set of records
    nextId,       \* next record id the store hands out
    now,          \* the clock, in units of cache_expiry_days
    lru,          \* the last step's cleanup_lru call: its ceiling and its victims
    files,        \* the cached files on disk, by path
    got,          \* the last step's get_by_url call
    put,          \* the last step's _download_and_cache call
    swept,        \* the last step's cleanup_expired_cache call
    \* ---- calls of the cache running at the same time ----
    wk,           \* per task: the call it is in and that call's local variables
    calls,        \* calls started
    gone,         \* ids of the records deleted from the table so far
    over,         \* cleanup_lru deleted a record while the total was within its ceiling
    revived,      \* a save has written back a record that had been deleted
    overlapped,   \* a call was started while another one was under way
    \* ---- the Anki card models and services ----
    last,         \* the last call made: its arguments and how it ended
    card,         \* the anki_card record the edits are made on
    edits,        \* the anki_card_edit_history records of that card
    mp3s          \* the *.mp3 files of the audio directory, with their ages

audioVars == <<pc, url, fileExists, fileBytes, openSocks, attempts, established,
               header_bytes, hdr, buf, collected, wyStatus, wyResult, genStatus,
               stream, peerClosed, sent, expected, stopSent, wellFormed, truncated,
               trailing, stopReason, declData, declPayload, readData, lastIo,
               delivered, stopRead, idle, http>>
ghostVars == <<lru, got, put, swept>>
taskVars == <<wk, calls, gone, over, revived, overlapped>>
cacheVars == <<cache, nextId, now, files, ghostVars, taskVars>>
storeVars == <<card, edits, mp3s>>
ankiVars == <<last, storeVars>>
vars == <<audioVars, cacheVars, ankiVars>>

----------------------------------------------------------------------------
\* Bounds of the model.
MaxFrames == 2    \* lines the peer forms in one response
MaxData == 1      \* largest data_length
MaxPayload == 2   \* largest payload_length
MaxIdle == 1      \* timeout periods a recv on a socket without timeout is followed for

\* Bytes and names the code compares against.
NL == 10                 \* b"\n"
WYOMING_PORT == 10200    \* the fallback port
SOCKET_TIMEOUT == 6      \* s.settimeout(6)

Min(a, b) == IF a < b THEN a ELSE b

RECURSIVE Flatten(_)
Flatten(ss) == IF ss = <<>> THEN <<>> ELSE Head(ss) \o Flatten(Tail(ss))

----------------------------------------------------------------------------
\* The wire format.
Types == {"audio-chunk", "audio-stop"}

TypeByte(t) ==
    CASE t = "audio-chunk" -> 67
      [] t = "audio-stop" -> 83

DigitByte(n) == 48 + n

\* The i-th line's payload block: distinct bytes, the second one a newline.
PayloadBlock(i, p) == [k \in 1..p |-> IF k = 2 THEN NL ELSE 100 + 10 * i + k]
\* The i-th line's data_length block.
DataBlock(i, d) == [k \in 1..d |-> 200 + 10 * i + k]
IsDataByte(b) == b >= 200

Frames ==
    [kind : {"frame"}, typ : Types, dl : 0..MaxData, pl : 0..MaxPayload]
Specials ==
    [kind : {"garbage", "blank", "scalar"}, typ : {"audio-chunk"}, dl : {0}, pl : {0}]
Items == Frames \cup Specials

\* The bytes of the i-th line the peer forms.
ItemBytes(it, i) ==
    CASE it.kind = "frame" ->
           <<TypeByte(it.typ), DigitByte(it.dl), DigitByte(it.pl), NL>>
              \o DataBlock(i, it.dl) \o PayloadBlock(i, it.pl)
      [] it.kind = "garbage" -> <<63, NL>>
      [] it.kind = "blank" -> <<NL>>
      [] it.kind = "scalar" -> <<DigitByte(0), NL>>

\* json.loads(header_bytes.decode("utf-8")): an object, another JSON value, or
\* an exception.
JsonLoads(line) ==
    IF /\ Len(line) = 3
       /\ \E t \in Types : TypeByte(t) = line[1]
       /\ line[2] - 48 \in 0..9
       /\ line[3] - 48 \in 0..9
    THEN [res |-> "object",
          typ |-> CHOOSE t \in Types : TypeByte(t) = line[1],
          dl |-> line[2] - 48,
          pl |-> line[3] - 48]
    ELSE IF Len(line) = 1 /\ line[1] - 48 \in 0..9
    THEN [res |-> "scalar", typ |-> "audio-chunk", dl |-> 0, pl |-> 0]
    ELSE [res |-> "error", typ |-> "audio-chunk", dl |-> 0, pl |-> 0]

NoHdr == [res |-> "none", typ |-> "audio-chunk", dl |-> 0, pl |-> 0]

----------------------------------------------------------------------------
\* Configuration: PIPER_URL as the environment may set it.
Urls == {"http://127.0.0.1:10200", "http://piper:5000", "piper"}

\* The port _synthesize_via_wyoming parses from PIPER_URL; a url without a
\* host:port pair falls back to the default.
ParsePort(u) ==
    CASE u = "http://127.0.0.1:10200" -> 10200
      [] u = "http://piper:5000" -> 5000
      [] OTHER -> WYOMING_PORT

OldAudio == <<79>>     \* an audio file written by an earlier call
HttpAudio == <<72>>    \* the body of a 200 reply of Piper's HTTP API

NeedFallback_never(port) == FALSE

\* `if sock is None and port != 10200`
NeedFallback(port) == port # WYOMING_PORT

\* _try_connect's except branch: the socket it created is closed.
CloseFailed(n) == n - 1

Finally_skip(n) == n

\* The finally block: shutdown (errors ignored), then close.
Finally(n) == n - 1

IsTerminal_never(typ) == FALSE

\* `if typ == "audio-stop": break`
IsTerminal(typ) == typ = "audio-stop"

\* `collected.extend(payload)`
Extend(c, payload) == c \o payload

DropData_keep(c, data) == c \o data

\* `_ = _read_n(data_len)`: the block is read and dropped.
DropData(c, data) == c

StoreWyoming_always(bytes) == TRUE

\* `if wyoming_bytes:` in _generate_piper_audio
StoreWyoming(bytes) == bytes # <<>>

Reading == {"hdr", "data", "pay"}

----------------------------------------------------------------------------
\* The image cache.  Sizes are counted in units of 100 MiB, time in units of
\* cache_expiry_days.
MaxInserts == 3   \* records ever created
MaxTime == 2      \* last clock value
MaxAccess == 1    \* largest access_count

MAX_CACHE_SIZE == 5   \* self.max_cache_size = 500 MiB
CACHE_EXPIRY == 1     \* timedelta(days=self.cache_expiry_days)

\* File sizes of the images the providers serve.
Sizes == {2, 3}

Queries == {"Kat", " kat", "hond"}

\* query.lower().strip()
LowerStrip(q) ==
    CASE q = "Kat" -> "kat"
      [] q = " kat" -> "kat"
      [] OTHER -> q

\* _generate_cache_key: f"{provider}:{query.lower().strip()}"
GenerateCacheKey(q, provider) == <<provider, LowerStrip(q)>>

RECURSIVE SumSizes(_)
SumSizes(S) ==
    IF S = {} THEN 0
    ELSE LET e == CHOOSE x \in S : TRUE IN e.file_size + SumSizes(S \ {e})

\* ObjectModel.save: creates the record, or replaces the one with its id.
DbSave(tbl, rec) == {r \in tbl : r.id # rec.id} \cup {rec}

\* ObjectModel.delete: removes the record with that id.
DbDelete(tbl, rec) == {r \in tbl : r.id # rec.id}

\* get_total_cache_size: math::sum(file_size) over the table, 0 when empty.
TotalCacheSize(tbl) == SumSizes(tbl)

AscOrders_desc(tbl) ==
    {o \in [1..Cardinality(tbl) -> tbl] :
        /\ \A i, j \in DOMAIN o : i # j => o[i] # o[j]
        /\ \A i, j \in DOMAIN o : i < j => o[i].last_accessed >= o[j].last_accessed}

\* "SELECT * FROM image_cache ORDER BY last_accessed ASC": every listing of
\* the table in ascending last_accessed order; the order among equal
\* last_accessed values is the store's.
AscOrders(tbl) ==
    {o \in [1..Cardinality(tbl) -> tbl] :
        /\ \A i, j \in DOMAIN o : i # j => o[i] # o[j]
        /\ \A i, j \in DOMAIN o : i < j => o[i].last_accessed <= o[j].last_accessed}

RECURSIVE EvictLoop_single(_, _, _)
EvictLoop_single(entries, freed_bytes, bytes_to_free) ==
    IF entries = <<>> \/ freed_bytes >= bytes_to_free \/ freed_bytes > 0
    THEN {}
    ELSE {Head(entries)} \cup
         EvictLoop_single(Tail(entries), freed_bytes + Head(entries).file_size,
                          bytes_to_free)

\* The for loop of cleanup_lru: the entries it deletes.
RECURSIVE EvictLoop(_, _, _)
EvictLoop(entries, freed_bytes, bytes_to_free) ==
    IF entries = <<>> \/ freed_bytes >= bytes_to_free
    THEN {}
    ELSE {Head(entries)} \cup
         EvictLoop(Tail(entries), freed_bytes + Head(entries).file_size,
                   bytes_to_free)

\* The entries one cleanup_lru(max_size_bytes) call deletes, given the
\* listing the store returned.
LruVictims(tbl, max_size_bytes, entries) ==
    LET total_size == TotalCacheSize(tbl) IN
    IF total_size <= max_size_bytes
    THEN {}
    ELSE EvictLoop(entries, 0, total_size - max_size_bytes)

RECURSIVE DeleteAll(_, _)
DeleteAll(tbl, victims) ==
    IF victims = {} THEN tbl
    ELSE LET e == CHOOSE x \in victims : TRUE IN
         DeleteAll(DbDelete(tbl, e), victims \ {e})

\* ImageCache.cleanup_lru(max_size_bytes) on table tbl: the store answers the
\* ORDER BY query with one of its ascending listings, the loop deletes its
\* victims.
CleanupLru(tbl, max_size_bytes) ==
    \E victims \in {LruVictims(tbl, max_size_bytes, entries) :
                       entries \in AscOrders(tbl)} :
        /\ cache' = DeleteAll(tbl, victims)
        /\ lru' = [ran |-> TRUE, max |-> max_size_bytes, evicted |-> victims]

\* _is_expired: now > expires_at
IsExpired(e) == now > e.expires_at

\* The record _download_and_cache builds.
NewEntry(key, size) ==
    [id |-> nextId, url |-> key, file_size |-> size, access_count |-> 0,
     last_accessed |-> now, expires_at |-> now + CACHE_EXPIRY]

NoLru == [ran |-> FALSE, max |-> 0, evicted |-> {}]

\* No record: what get_by_url returns on a miss.
None == [id |-> 0, url |-> <<>>, file_size |-> 0, access_count |-> 0,
         last_accessed |-> 0, expires_at |-> 0]

NoGet == [ran |-> FALSE, by |-> "none", key |-> <<>>, t |-> 0, hit |-> FALSE,
          ret |-> None, before |-> {}, after |-> {}, fetched |-> FALSE]
NoPut == [ran |-> FALSE, rec |-> None, seen |-> {}, ret |-> <<>>]
NoSweep == [ran |-> FALSE, t |-> 0, before |-> {}, removed |-> {},
            failed |-> {}, filesBefore |-> {}]

\* The tasks of the event loop that call into the cache.
Tasks == {1, 2}

\* A task that is in no cache call.
Idle == [op |-> "idle", pc |-> "idle", max |-> 0, total |-> 0,
         entries |-> <<>>, rec |-> None, pending |-> {}]

InitCache ==
    /\ cache = {}
    /\ files = {}
    /\ nextId = 1
    /\ now = 0
    /\ lru = NoLru
    /\ got = NoGet
    /\ put = NoPut
    /\ swept = NoSweep
    /\ wk = [w \in Tasks |-> Idle]
    /\ calls = 0
    /\ gone = {}
    /\ over = FALSE
    /\ revived = FALSE
    /\ overlapped = FALSE

\* No call of the card models and services has been made; no card is stored.
NoCall == [op |-> "none"]

InitAnki ==
    /\ last = NoCall
    /\ card = None
    /\ edits = {}
    /\ mp3s = {}

\* cached_path: self.cache_dir / (md5(cache_key) + ".jpg"), one path per key.
CachedPath(key) == key

DownloadAndCache_cleanupFirst(tbl, key, size) ==
    /\ files' = files \cup {CachedPath(key)}
    /\ \E victims \in {LruVictims(tbl, MAX_CACHE_SIZE, entries) :
                          entries \in AscOrders(tbl)} :
          /\ cache' = DbSave(DeleteAll(tbl, victims), NewEntry(key, size))
          /\ lru' = [ran |-> TRUE, max |-> MAX_CACHE_SIZE, evicted |-> victims]
    /\ put' = [ran |-> TRUE, rec |-> NewEntry(key, size), seen |-> tbl,
               ret |-> CachedPath(key)]
    /\ nextId' = nextId + 1

\* _download_and_cache after a successful download: the file is written, the
\* record is saved, then cleanup_lru(self.max_cache_size) runs and the path
\* is returned.
DownloadAndCache(tbl, key, size) ==
    /\ files' = files \cup {CachedPath(key)}
    /\ CleanupLru(DbSave(tbl, NewEntry(key, size)), MAX_CACHE_SIZE)
    /\ put' = [ran |-> TRUE, rec |-> NewEntry(key, size),
               seen |-> DbSave(tbl, NewEntry(key, size)),
               ret |-> CachedPath(key)]
    /\ nextId' = nextId + 1

\* The provider search of search_image: nothing found (or no API key, or a
\* failed download), or an image of some size that is downloaded and cached.
FetchFromApi(tbl, key) ==
    \/ /\ cache' = tbl
       /\ lru' = NoLru
       /\ put' = NoPut
       /\ UNCHANGED <<nextId, files>>
    \/ /\ nextId <= MaxInserts
       /\ \E size \in Sizes : DownloadAndCache(tbl, key, size)

GetHits_fresh(tbl, key) == {r \in tbl : r.url = key /\ ~IsExpired(r)}

\* "SELECT * FROM image_cache WHERE url = $url LIMIT 1": the records the
\* store may answer with.
GetHits(tbl, key) == {r \in tbl : r.url = key}

Bump_countOnly(r) == [r EXCEPT !.access_count = @ + 1]

\* get_by_url's access tracking update.
Bump(r) == [r EXCEPT !.access_count = @ + 1, !.last_accessed = now]

\* What one get_by_url(key) call does: the table it leaves and what it
\* returns.
GetByUrl(tbl, key) ==
    IF GetHits(tbl, key) = {}
    THEN {[tbl |-> tbl, ret |-> None, hit |-> FALSE]}
    ELSE {[tbl |-> DbSave(tbl, Bump(r)), ret |-> Bump(r), hit |-> TRUE] :
             r \in {h \in GetHits(tbl, key) : h.access_count < MaxAccess}}

\* `if cached_entry and not self._is_expired(cached_entry)`
UseCached(hit, cached_entry) == hit /\ ~IsExpired(cached_entry)

\* ImageService.search_image: get_by_url bumps the access tracking of a hit;
\* a fresh hit is returned, a miss or an expired hit goes to the provider.
SearchImage ==
    /\ UNCHANGED <<ankiVars, audioVars, taskVars, now>>
    /\ swept' = NoSweep
    /\ \E q \in Queries :
          LET key == GenerateCacheKey(q, "unsplash") IN
          \E g \in GetByUrl(cache, key) :
             LET fetch == ~UseCached(g.hit, g.ret) IN
             /\ got' = [ran |-> TRUE, by |-> "search_image", key |-> key,
                        t |-> now, hit |-> g.hit, ret |-> g.ret,
                        before |-> cache, after |-> g.tbl, fetched |-> fetch]
             /\ IF fetch
                THEN FetchFromApi(g.tbl, key)
                ELSE /\ cache' = g.tbl
                     /\ lru' = NoLru
                     /\ put' = NoPut
                     /\ UNCHANGED <<nextId, files>>

\* A call of ImageCache.get_by_url(url).
GetByUrlCall ==
    /\ UNCHANGED <<ankiVars, audioVars, taskVars, now, nextId, files>>
    /\ lru' = NoLru
    /\ put' = NoPut
    /\ swept' = NoSweep
    /\ \E q \in Queries :
          LET key == GenerateCacheKey(q, "unsplash") IN
          \E g \in GetByUrl(cache, key) :
             /\ cache' = g.tbl
             /\ got' = [ran |-> TRUE, by |-> "get_by_url", key |-> key,
                        t |-> now, hit |-> g.hit, ret |-> g.ret,
                        before |-> cache, after |-> g.tbl, fetched |-> FALSE]

\* The ceilings cleanup_lru is called with: the configured one (also its
\* default), and one below the largest file size.
Ceilings == {MAX_CACHE_SIZE, 2}

\* A call of ImageCache.cleanup_lru(max_size_bytes).
CleanupLruCall ==
    /\ UNCHANGED <<ankiVars, audioVars, taskVars, now, nextId, files>>
    /\ got' = NoGet
    /\ put' = NoPut
    /\ swept' = NoSweep
    /\ \E max_size_bytes \in Ceilings : CleanupLru(cache, max_size_bytes)

ExpiredEntries_inclusive(tbl) == {e \in tbl : e.expires_at <= now}

\* get_expired_entries: "SELECT * FROM image_cache WHERE expires_at < $now"
ExpiredEntries(tbl) == {e \in tbl : e.expires_at < now}

SweptRecords_skipFailed(expired, failed) ==
    {e \in expired : CachedPath(e.url) \notin failed}

\* The records the loop of cleanup_expired_cache deletes, given the paths
\* whose unlink raised: the exception is caught and logged, entry.delete()
\* follows for every entry.
SweptRecords(expired, failed) == expired

\* The files the loop of cleanup_expired_cache leaves on disk.
SweptFiles(fs, expired, failed) ==
    fs \ ({CachedPath(e.url) : e \in expired} \ failed)

\* ImageService.cleanup_expired_cache: for every expired entry the cached
\* file is unlinked when it exists (a failure is logged), then the record is
\* deleted.
CleanupExpiredCache ==
    /\ UNCHANGED <<ankiVars, audioVars, taskVars, now, nextId>>
    /\ LET expired == ExpiredEntries(cache) IN
       \E failed \in SUBSET ({CachedPath(e.url) : e \in expired} \cap files) :
          /\ files' = SweptFiles(files, expired, failed)
          /\ cache' = DeleteAll(cache, SweptRecords(expired, failed))
          /\ swept' = [ran |-> TRUE, t |-> now, before |-> cache,
                       removed |-> expired, failed |-> failed,
                       filesBefore |-> files]
    /\ lru' = NoLru
    /\ got' = NoGet
    /\ put' = NoPut

\* Time passes.
Tick ==
    /\ UNCHANGED <<ankiVars, audioVars, taskVars, cache, nextId, files>>
    /\ now < MaxTime
    /\ now' = now + 1
    /\ lru' = NoLru
    /\ got' = NoGet
    /\ put' = NoPut
    /\ swept' = NoSweep

NextCache ==
    \/ SearchImage
    \/ GetByUrlCall
    \/ CleanupLruCall
    \/ CleanupExpiredCache
    \/ Tick

----------------------------------------------------------------------------
\* Initial state of a call.
InitAudio ==
    /\ idle = 0
    /\ pc = "start"
    /\ url \in Urls
    /\ fileExists \in BOOLEAN
    /\ fileBytes = IF fileExists THEN OldAudio ELSE <<>>
    /\ openSocks = 0
    /\ attempts = <<>>
    /\ established = 0
    /\ header_bytes = <<>>
    /\ hdr = NoHdr
    /\ buf = <<>>
    /\ collected = <<>>
    /\ wyStatus = "none"
    /\ wyResult = <<>>
    /\ genStatus = "none"
    /\ stream = <<>>
    /\ peerClosed = FALSE
    /\ sent = 0
    /\ expected = <<>>
    /\ stopSent = FALSE
    /\ wellFormed = TRUE
    /\ truncated = FALSE
    /\ stopReason = "none"
    /\ declData = 0
    /\ declPayload = 0
    /\ readData = 0
    /\ lastIo = "none"
    /\ http = "none"
    /\ delivered = <<>>
    /\ stopRead = FALSE
    /\ trailing = FALSE

peerVars == <<stream, peerClosed, sent, expected, stopSent, wellFormed, truncated,
              trailing>>
connVars == <<url, attempts, established>>
readVars == <<header_bytes, hdr, buf, collected, declData, declPayload, readData>>

\* The read loop goes on: the call stays inside _synthesize_via_wyoming.
ReadOn(p, h, hb, b, c, dd, dp, rd) ==
    /\ pc' = p
    /\ hdr' = h
    /\ header_bytes' = hb
    /\ buf' = b
    /\ collected' = c
    /\ declData' = dd
    /\ declPayload' = dp
    /\ readData' = rd
    /\ UNCHANGED <<fileExists, fileBytes, openSocks, wyStatus, wyResult, genStatus,
                   stopReason>>

\* `return bytes(collected)` through the finally block, and the caller's
\* handling of the bytes: a file is written only for non-empty audio.
Return(c, reason, dd, dp, rd) ==
    /\ pc' = "done"
    /\ collected' = c
    /\ declData' = dd
    /\ declPayload' = dp
    /\ readData' = rd
    /\ stopReason' = reason
    /\ openSocks' = Finally(openSocks)
    /\ wyStatus' = "returned"
    /\ wyResult' = c
    /\ IF StoreWyoming(c)
       THEN /\ fileExists' = TRUE
            /\ fileBytes' = c
            /\ genStatus' = "returned"
       ELSE /\ genStatus' = "raised"
            /\ UNCHANGED <<fileExists, fileBytes>>
    /\ UNCHANGED <<hdr, header_bytes, buf>>

\* An exception leaves the try block through the finally block; the caller
\* turns it into RuntimeError.
Raise ==
    /\ pc' = "done"
    /\ openSocks' = Finally(openSocks)
    /\ wyStatus' = "raised"
    /\ genStatus' = "raised"
    /\ UNCHANGED <<fileExists, fileBytes, wyResult, stopReason, readVars>>

\* End of one frame.
AfterFrame(h, c, dd, dp, rd) ==
    IF IsTerminal(h.typ)
    THEN Return(c, "audio-stop", dd, dp, rd)
    ELSE ReadOn("hdr", NoHdr, <<>>, <<>>, c, dd, dp, rd)

\* After the data_length block: the payload block, if one is declared.
AfterData(h, c, dd, dp, rd) ==
    IF h.pl # 0
    THEN ReadOn("pay", h, <<>>, <<>>, c, dd, dp, rd)
    ELSE AfterFrame(h, c, dd, dp, rd)

\* The line parses to a header whose type is audio-stop.
ParsedStop(line) ==
    /\ line # <<>>
    /\ JsonLoads(line).res = "object"
    /\ JsonLoads(line).typ = "audio-stop"

LineComplete_noEofBreak(line) ==
    IF line = <<>>
    THEN Raise
    ELSE LET h == JsonLoads(line) IN
         CASE h.res = "error" ->
                Return(collected, "malformed", declData, declPayload, readData)
           [] h.res = "scalar" -> Raise
           [] h.res = "object" ->
                IF h.dl # 0
                THEN ReadOn("data", h, <<>>, <<>>, collected,
                            declData + h.dl, declPayload + h.pl, readData)
                ELSE AfterData(h, collected, declData + h.dl,
                               declPayload + h.pl, readData)

LineComplete_noTry(line) ==
    IF line = <<>>
    THEN Return(collected, "eof", declData, declPayload, readData)
    ELSE LET h == JsonLoads(line) IN
         CASE h.res = "error" -> Raise
           [] h.res = "scalar" -> Raise
           [] h.res = "object" ->
                IF h.dl # 0
                THEN ReadOn("data", h, <<>>, <<>>, collected,
                            declData + h.dl, declPayload + h.pl, readData)
                ELSE AfterData(h, collected, declData + h.dl,
                               declPayload + h.pl, readData)

\* A header line is complete (newline or end of stream).
LineComplete(line) ==
    IF line = <<>>
    THEN Return(collected, "eof", declData, declPayload, readData)
    ELSE LET h == JsonLoads(line) IN
         CASE h.res = "error" ->
                Return(collected, "malformed", declData, declPayload, readData)
           [] h.res = "scalar" -> Raise
           [] h.res = "object" ->
                IF h.dl # 0
                THEN ReadOn("data", h, <<>>, <<>>, collected,
                            declData + h.dl, declPayload + h.pl, readData)
                ELSE AfterData(h, collected, declData + h.dl,
                               declPayload + h.pl, readData)

----------------------------------------------------------------------------
\* _generate_piper_audio, lines 113-116: the target file is already there.
CachedAudio ==
    /\ UNCHANGED <<ankiVars, cacheVars, http, idle>>
    /\ pc = "start"
    /\ fileExists
    /\ pc' = "done"
    /\ genStatus' = "returned"
    /\ UNCHANGED <<fileExists, fileBytes, openSocks, wyStatus, wyResult, stopReason,
                   lastIo, delivered, stopRead, readVars, connVars, peerVars>>

\* Lines 118-132: the HTTP probe.  Only a 200 reply with a body ends the call.
HttpProbe ==
    /\ UNCHANGED <<ankiVars, cacheVars, idle>>
    /\ pc = "start"
    /\ ~fileExists
    /\ \E reply \in {"ok", "empty", "status", "exception"} :
          IF reply = "ok"
          THEN /\ fileExists' = TRUE
               /\ fileBytes' = HttpAudio
               /\ genStatus' = "returned"
               /\ pc' = "done"
               /\ http' = "ok"
          ELSE /\ pc' = "connect"
               /\ http' = "failed"
               /\ UNCHANGED <<fileExists, fileBytes, genStatus>>
    /\ UNCHANGED <<openSocks, wyStatus, wyResult, stopReason, lastIo, delivered, stopRead,
                   readVars, connVars, peerVars>>

\* `raise RuntimeError("Failed to connect ...")`: before the try block, so
\* without the finally block.
ConnectFailed ==
    /\ pc' = "done"
    /\ wyStatus' = "raised"
    /\ genStatus' = "raised"

\* One _try_connect(host, p) followed by the test that comes after it.
TryConnect(p, more) ==
    /\ attempts' = Append(attempts, p)
    /\ \E ok \in BOOLEAN :
          IF ok
          THEN /\ openSocks' = openSocks + 1
               /\ established' = established + 1
               /\ pc' = "send"
               /\ UNCHANGED <<wyStatus, genStatus>>
          ELSE /\ openSocks' = CloseFailed(openSocks + 1)
               /\ UNCHANGED established
               /\ IF more
                  THEN pc' = "fallback" /\ UNCHANGED <<wyStatus, genStatus>>
                  ELSE ConnectFailed
    /\ UNCHANGED <<url, fileExists, fileBytes, wyResult, stopReason, lastIo, delivered, stopRead,
                   readVars, peerVars>>

\* Line 186: the configured port.
TryConnectPrimary ==
    /\ UNCHANGED <<ankiVars, cacheVars, http, idle>>
    /\ pc = "connect"
    /\ TryConnect(ParsePort(url), NeedFallback(ParsePort(url)))

\* Line 188: the Wyoming port.
TryConnectFallback ==
    /\ UNCHANGED <<ankiVars, cacheVars, http, idle>>
    /\ pc = "fallback"
    /\ TryConnect(WYOMING_PORT, FALSE)

SocketFailure_swallow ==
    Return(collected, "eof", declData, declPayload, readData)

\* The try block has no except clause: an exception of sendall or recv
\* leaves it through the finally block.
SocketFailure == Raise

\* Lines 194-196: sendall of the synthesize header; it may raise.
SendHeader ==
    /\ UNCHANGED <<ankiVars, cacheVars, http, idle>>
    /\ pc = "send"
    /\ \/ /\ lastIo' = "sent"
          /\ ReadOn("hdr", NoHdr, <<>>, <<>>, <<>>, 0, 0, 0)
       \/ /\ lastIo' = "send-error"
          /\ SocketFailure
    /\ UNCHANGED <<delivered, stopRead, connVars, peerVars>>

\* The lines of a burst up to and including its first audio-stop frame.
RECURSIVE UpToStop(_)
UpToStop(items) ==
    IF items = <<>> THEN <<>>
    ELSE IF Head(items).kind = "frame" /\ Head(items).typ = "audio-stop"
    THEN <<Head(items)>>
    ELSE <<Head(items)>> \o UpToStop(Tail(items))

Bursts(n) ==
    {<<a>> : a \in Items} \cup (IF n >= 2 THEN {<<a, b>> : a, b \in Items} ELSE {})

\* The peer forms its next lines (one, or two back to back) and sends them.
PeerSend ==
    /\ UNCHANGED <<ankiVars, cacheVars, http, idle>>
    /\ pc \in Reading
    /\ stream = <<>>
    /\ ~peerClosed
    /\ sent < MaxFrames
    /\ \E burst \in Bursts(MaxFrames - sent) :
          LET head == UpToStop(burst) IN
          /\ stream' = Flatten([j \in 1..Len(burst) |-> ItemBytes(burst[j], sent + j)])
          /\ sent' = sent + Len(burst)
          /\ expected' =
                IF stopSent THEN expected
                ELSE expected \o
                     Flatten([j \in 1..Len(head) |->
                                IF head[j].kind = "frame"
                                THEN PayloadBlock(sent + j, head[j].pl)
                                ELSE <<>>])
          /\ stopSent' = (stopSent \/ \E j \in 1..Len(burst) :
                             burst[j].kind = "frame" /\ burst[j].typ = "audio-stop")
          /\ wellFormed' =
                (wellFormed /\ (stopSent \/
                                \A j \in 1..Len(head) : head[j].kind = "frame"))
          /\ trailing' = (trailing \/ stopSent \/ Len(head) < Len(burst))
    /\ UNCHANGED <<pc, fileExists, fileBytes, openSocks, wyStatus, wyResult, genStatus,
                   stopReason, lastIo, delivered, stopRead, readVars, connVars, peerClosed,
                   truncated>>

\* The peer closes its end; what it had formed and not delivered is lost.
PeerClose ==
    /\ UNCHANGED <<ankiVars, cacheVars, http, idle>>
    /\ pc \in Reading
    /\ ~peerClosed
    /\ peerClosed' = TRUE
    /\ truncated' = (truncated \/ stream # <<>>)
    /\ stream' = <<>>
    /\ UNCHANGED <<pc, fileExists, fileBytes, openSocks, wyStatus, wyResult, genStatus,
                   stopReason, lastIo, delivered, stopRead, readVars, connVars, sent, expected,
                   stopSent, wellFormed, trailing>>

\* Lines 213-227: sock.recv(1) while a header line is read.
RecvHeaderByte ==
    /\ UNCHANGED <<ankiVars, cacheVars, http, idle, delivered>>
    /\ pc = "hdr"
    /\ \/ /\ stream # <<>>
          /\ stream' = Tail(stream)
          /\ IF Head(stream) = NL
             THEN /\ lastIo' = "newline"
                  /\ stopRead' = (stopRead \/ ParsedStop(header_bytes))
                  /\ LineComplete(header_bytes)
             ELSE /\ lastIo' = "byte"
                  /\ UNCHANGED stopRead
                  /\ ReadOn("hdr", hdr, Append(header_bytes, Head(stream)), buf,
                            collected, declData, declPayload, readData)
       \/ /\ stream = <<>>
          /\ peerClosed
          /\ UNCHANGED stream
          /\ lastIo' = IF header_bytes = <<>> THEN "eof-at-header" ELSE "eof-in-header"
          /\ stopRead' = (stopRead \/ ParsedStop(header_bytes))
          /\ LineComplete(header_bytes)
    /\ UNCHANGED <<connVars, peerClosed, sent, expected, stopSent, wellFormed,
                   truncated, trailing>>

\* Lines 201-208 and 233: one sock.recv of _read_n(data_len).
RecvData ==
    /\ UNCHANGED <<ankiVars, cacheVars, http, idle, delivered, stopRead>>
    /\ pc = "data"
    /\ \/ /\ stream # <<>>
          /\ \E k \in 1..Min(hdr.dl - Len(buf), Len(stream)) :
                LET b == buf \o SubSeq(stream, 1, k) IN
                /\ stream' = SubSeq(stream, k + 1, Len(stream))
                /\ lastIo' = "byte"
                /\ IF Len(b) < hdr.dl
                   THEN ReadOn("data", hdr, <<>>, b, collected, declData,
                               declPayload, readData + k)
                   ELSE AfterData(hdr, DropData(collected, b), declData,
                                  declPayload, readData + k)
       \/ /\ stream = <<>>
          /\ peerClosed
          /\ UNCHANGED stream
          /\ lastIo' = "eof-in-block"
          /\ AfterData(hdr, DropData(collected, buf), declData, declPayload, readData)
    /\ UNCHANGED <<connVars, peerClosed, sent, expected, stopSent,
                   wellFormed, truncated, trailing>>

\* Lines 201-208 and 237-238: one sock.recv of _read_n(payload_len).
RecvPayload ==
    /\ UNCHANGED <<ankiVars, cacheVars, http, idle, stopRead>>
    /\ pc = "pay"
    /\ \/ /\ stream # <<>>
          /\ \E k \in 1..Min(hdr.pl - Len(buf), Len(stream)) :
                LET b == buf \o SubSeq(stream, 1, k) IN
                /\ stream' = SubSeq(stream, k + 1, Len(stream))
                /\ lastIo' = "byte"
                /\ delivered' = delivered \o SubSeq(stream, 1, k)
                /\ IF Len(b) < hdr.pl
                   THEN ReadOn("pay", hdr, <<>>, b, collected, declData,
                               declPayload, readData)
                   ELSE AfterFrame(hdr, Extend(collected, b), declData,
                                   declPayload, readData)
       \/ /\ stream = <<>>
          /\ peerClosed
          /\ UNCHANGED stream
          /\ lastIo' = "eof-in-block"
          /\ UNCHANGED delivered
          /\ AfterFrame(hdr, Extend(collected, buf), declData, declPayload, readData)
    /\ UNCHANGED <<connVars, peerClosed, sent, expected, stopSent,
                   wellFormed, truncated, trailing>>

\* A recv raises (reset, or the 6 s socket timeout).
RecvError ==
    /\ UNCHANGED <<ankiVars, cacheVars, http, idle>>
    /\ pc \in Reading
    /\ lastIo' = "recv-error"
    /\ SocketFailure
    /\ UNCHANGED <<delivered, stopRead, connVars, peerVars>>

RecvBlocksOn_connectOnly(timeout) == TRUE

\* s.settimeout(6) in _try_connect is never changed afterwards, so it also
\* bounds every later recv: a recv blocks for good only on a socket without
\* a timeout.
RecvBlocksOn(timeout) == timeout = 0

\* The timeout period passes while the client sits in recv and the peer,
\* still connected, sends nothing: recv raises socket.timeout.
RecvSilence ==
    /\ UNCHANGED <<ankiVars, cacheVars, http>>
    /\ pc \in Reading
    /\ stream = <<>>
    /\ ~peerClosed
    /\ IF RecvBlocksOn(SOCKET_TIMEOUT)
       THEN /\ idle < MaxIdle
            /\ idle' = idle + 1
            /\ UNCHANGED <<pc, fileExists, fileBytes, openSocks, wyStatus, wyResult,
                           genStatus, stopReason, lastIo, readVars>>
       ELSE /\ lastIo' = "recv-timeout"
            /\ SocketFailure
            /\ UNCHANGED idle
    /\ UNCHANGED <<delivered, stopRead, connVars, peerVars>>

NextAudio ==
    \/ CachedAudio
    \/ HttpProbe
    \/ TryConnectPrimary
    \/ TryConnectFallback
    \/ SendHeader
    \/ PeerSend
    \/ PeerClose
    \/ RecvHeaderByte
    \/ RecvData
    \/ RecvPayload
    \/ RecvError
    \/ RecvSilence

\* One _generate_piper_audio call; the image cache is not touched.
InitA == InitAudio /\ InitCache /\ InitAnki
SpecAudio == InitA /\ [][NextAudio]_vars

\* The image cache used by one caller at a time; no audio call is running.
InitC ==
    /\ InitAudio
    /\ url = "http://127.0.0.1:10200"
    /\ ~fileExists
    /\ InitCache
    /\ InitAnki
SpecCache == InitC /\ [][NextCache]_vars

----------------------------------------------------------------------------
\* The cache calls of several tasks of one event loop.  A coroutine runs
\* alone between two awaits, so a step is what a call does from one database
\* await to the next.  The clock counts expiry periods (days); the calls
\* followed here overlap within one clock value, some periods after the
\* calls that filled the table.
MaxCalls == 2     \* calls started

Busy(w) == wk[w].op # "idle"

\* A call starts: it overlaps when another task is inside a call.  The tasks
\* are interchangeable: a call that starts while no call is under way is
\* taken to run in task 1.
Begin(w) ==
    /\ ~Busy(w)
    /\ (w = 1 \/ Busy(1))
    /\ calls < MaxCalls
    /\ calls' = calls + 1
    /\ overlapped' = (overlapped \/ \E v \in Tasks \ {w} : Busy(v))

\* _download_and_cache up to `await cache_entry.save()`: the file is
\* written and the record created; cleanup_lru(self.max_cache_size) follows.
TaskPutSave(w) ==
    /\ UNCHANGED <<ankiVars, audioVars, ghostVars, now, gone, over, revived>>
    /\ Begin(w)
    /\ nextId <= MaxInserts
    /\ \E q \in Queries, size \in Sizes :
          LET key == GenerateCacheKey(q, "unsplash") IN
          /\ files' = files \cup {CachedPath(key)}
          /\ cache' = DbSave(cache, NewEntry(key, size))
          /\ nextId' = nextId + 1
          /\ wk' = [wk EXCEPT ![w] = [Idle EXCEPT !.op = "put", !.pc = "total",
                                                  !.max = MAX_CACHE_SIZE]]

\* A call of cleanup_lru(max_size_bytes) begins.
TaskLruCall(w) ==
    /\ UNCHANGED <<ankiVars, audioVars, ghostVars, now, gone, over, revived, cache, files, nextId>>
    /\ Begin(w)
    /\ \E max_size_bytes \in Ceilings :
          wk' = [wk EXCEPT ![w] = [Idle EXCEPT !.op = "cleanup_lru", !.pc = "total",
                                               !.max = max_size_bytes]]

\* cleanup_lru: `total_size = await cls.get_total_cache_size()` and the
\* early return.
TaskLruTotal(w) ==
    /\ UNCHANGED <<ankiVars, audioVars, ghostVars, now, gone, over, revived, cache, files, nextId,
                   calls, overlapped>>
    /\ wk[w].pc = "total"
    /\ LET total_size == TotalCacheSize(cache) IN
       wk' = [wk EXCEPT ![w] =
                 IF total_size <= wk[w].max
                 THEN Idle
                 ELSE [@ EXCEPT !.pc = "list", !.total = total_size]]

LoopDone_late(freed_bytes, bytes_to_free) == freed_bytes > bytes_to_free

\* `if freed_bytes >= bytes_to_free: break`
LoopDone(freed_bytes, bytes_to_free) == freed_bytes >= bytes_to_free

\* The part of the listing the for loop of cleanup_lru gets to delete: the
\* loop leaves at the first entry it finds freed_bytes >= bytes_to_free at.
\* Nothing it decides on changes while it runs (the listing and both
\* counters are local), so this part is fixed once the listing is read.
RECURSIVE LoopReach(_, _, _)
LoopReach(entries, freed_bytes, bytes_to_free) ==
    IF entries = <<>> \/ LoopDone(freed_bytes, bytes_to_free)
    THEN <<>>
    ELSE <<Head(entries)>> \o
         LoopReach(Tail(entries), freed_bytes + Head(entries).file_size,
                   bytes_to_free)

\* cleanup_lru: the ORDER BY query; bytes_to_free is computed from the total
\* read before.  An empty listing, or a loop that leaves at once, ends the
\* call.
TaskLruList(w) ==
    /\ UNCHANGED <<ankiVars, audioVars, ghostVars, now, gone, over, revived, cache, files, nextId,
                   calls, overlapped>>
    /\ wk[w].pc = "list"
    /\ \E reach \in {LoopReach(entries, 0, wk[w].total - wk[w].max) :
                        entries \in AscOrders(cache)} :
          wk' = [wk EXCEPT ![w] =
                    IF reach = <<>>
                    THEN Idle
                    ELSE [@ EXCEPT !.pc = "loop", !.entries = reach, !.total = 0]]

\* cleanup_lru: one turn of the for loop, with its `await entry.delete()`;
\* the call ends after the last entry the loop gets to.
TaskLruDelete(w) ==
    /\ UNCHANGED <<ankiVars, audioVars, ghostVars, now, files, nextId, calls, overlapped, revived>>
    /\ wk[w].pc = "loop"
    /\ LET entry == Head(wk[w].entries) IN
       /\ cache' = DbDelete(cache, entry)
       /\ gone' = gone \cup {x.id : x \in {r \in cache : r.id = entry.id}}
       /\ over' = (over \/ (/\ \E x \in cache : x.id = entry.id
                            /\ TotalCacheSize(cache) <= wk[w].max))
       /\ wk' = [wk EXCEPT ![w] =
                    IF Tail(wk[w].entries) = <<>>
                    THEN Idle
                    ELSE [@ EXCEPT !.entries = Tail(@)]]

\* get_by_url up to `await cache_entry.save()`: the query, and the access
\* tracking update of the object built from its result.
TaskGetRead(w) ==
    /\ UNCHANGED <<ankiVars, audioVars, ghostVars, now, gone, over, revived, cache, files, nextId>>
    /\ Begin(w)
    /\ \E q \in Queries :
          \E r \in {h \in GetHits(cache, GenerateCacheKey(q, "unsplash")) :
                       h.access_count < MaxAccess} :
             wk' = [wk EXCEPT ![w] = [Idle EXCEPT !.op = "get_by_url", !.pc = "save",
                                                  !.rec = Bump(r)]]

\* get_by_url: the save of the updated entry.
TaskGetSave(w) ==
    /\ UNCHANGED <<ankiVars, audioVars, ghostVars, now, gone, over, files, nextId, calls,
                   overlapped>>
    /\ wk[w].pc = "save"
    /\ cache' = DbSave(cache, wk[w].rec)
    /\ revived' = (revived \/ \A r \in cache : r.id # wk[w].rec.id)
    /\ wk' = [wk EXCEPT ![w] = Idle]

\* cleanup_expired_cache: `expired = await ImageCache.get_expired_entries()`.
TaskSweepList(w) ==
    /\ UNCHANGED <<ankiVars, audioVars, ghostVars, now, gone, over, revived, cache, files, nextId>>
    /\ Begin(w)
    /\ ExpiredEntries(cache) # {}
    /\ wk' = [wk EXCEPT ![w] = [Idle EXCEPT !.op = "cleanup_expired_cache",
                                            !.pc = "sweep",
                                            !.pending = ExpiredEntries(cache)]]

\* cleanup_expired_cache: one turn of the for loop: the unlink, which may
\* fail, and the delete of the record.
TaskSweepDelete(w) ==
    /\ UNCHANGED <<ankiVars, audioVars, ghostVars, now, over, revived, nextId, calls, overlapped>>
    /\ wk[w].pc = "sweep"
    /\ \E entry \in wk[w].pending :
          /\ files' \in {files, files \ {CachedPath(entry.url)}}
          /\ cache' = DbDelete(cache, entry)
          /\ gone' = gone \cup {r.id : r \in {x \in cache : x.id = entry.id}}
          /\ wk' = [wk EXCEPT ![w] =
                       IF wk[w].pending = {entry}
                       THEN Idle
                       ELSE [@ EXCEPT !.pending = @ \ {entry}]]

NextTasks ==
    \/ \E w \in Tasks : TaskPutSave(w)
    \/ \E w \in Tasks : TaskLruCall(w)
    \/ \E w \in Tasks : TaskLruTotal(w)
    \/ \E w \in Tasks : TaskLruList(w)
    \/ \E w \in Tasks : TaskLruDelete(w)
    \/ \E w \in Tasks : TaskGetRead(w)
    \/ \E w \in Tasks : TaskGetSave(w)
    \/ \E w \in Tasks : TaskSweepList(w)
    \/ \E w \in Tasks : TaskSweepDelete(w)

\* The cache called by the tasks of one event loop; no audio call is running.
\* The tables earlier calls, made one at a time at time 0, have left.
EarlierTables ==
    LET first == [id |-> 1, url |-> GenerateCacheKey("Kat", "unsplash"),
                  file_size |-> 3, access_count |-> 0, last_accessed |-> 0,
                  expires_at |-> CACHE_EXPIRY]
        second == [id |-> 2, url |-> GenerateCacheKey("hond", "unsplash"),
                   file_size |-> 2, access_count |-> 0, last_accessed |-> 0,
                   expires_at |-> CACHE_EXPIRY]
    IN {{}, {first}, {first, second}}

InitT ==
    /\ InitAudio
    /\ url = "http://127.0.0.1:10200"
    /\ ~fileExists
    /\ cache \in EarlierTables
    /\ files = {CachedPath(r.url) : r \in cache}
    /\ nextId = Cardinality(cache) + 1
    /\ now \in 0..MaxTime
    /\ lru = NoLru
    /\ got = NoGet
    /\ put = NoPut
    /\ swept = NoSweep
    /\ wk = [w \in Tasks |-> Idle]
    /\ calls = 0
    /\ gone = {}
    /\ over = FALSE
    /\ revived = FALSE
    /\ overlapped = FALSE
    /\ InitAnki
SpecTasks == InitT /\ [][NextTasks]_vars

----------------------------------------------------------------------------
\* Properties of the Wyoming client and its caller.

Prefix(q, n) == SubSeq(q, 1, n)

\* The lines that are valid JSON in the abstracted encoding: a header object,
\* or a bare number.
ValidJson(line) ==
    \/ \E t \in Types, d \in 0..9, p \in 0..9 :
          line = <<TypeByte(t), DigitByte(d), DigitByte(p)>>
    \/ \E d \in 0..9 : line = <<DigitByte(d)>>

\* C1: when the peer's response is made of well-formed header frames, is
\* delivered whole and ends with its audio-stop frame, the call returns the
\* payload blocks of all frames in frame order (the audio-stop frame's own
\* payload included) and no byte of a data_length block.
C1_ConcatenatesPayloads ==
    (wyStatus = "returned" /\ stopSent /\ wellFormed /\ ~truncated /\ ~trailing)
        => /\ wyResult = expected
           /\ \A i \in 1..Len(wyResult) : ~IsDataByte(wyResult[i])

C1_Witness ==
    /\ wyStatus = "returned"
    /\ stopSent /\ wellFormed /\ ~truncated /\ ~trailing
    /\ sent >= 2
    /\ declData >= 1
    /\ Len(wyResult) >= 2

\* C4: a recv that returns no byte at the start of a header line ends the
\* call normally with the bytes accumulated so far, which are the payload
\* bytes received until then (none before the first header).
C4_PeerCloseReturnsAccumulated ==
    lastIo = "eof-at-header"
        => /\ pc = "done"
           /\ wyStatus = "returned"
           /\ wyResult = delivered
           /\ (sent = 0 => wyResult = <<>>)

C4_Witness ==
    /\ lastIo = "eof-at-header"
    /\ wyStatus = "returned"
    /\ wyResult # <<>>

\* C5: a received header line that is not valid JSON ends the call normally
\* with exactly the payloads of the frames read before that line.
C5_MalformedHeaderReturnsAccumulated ==
    (/\ lastIo \in {"newline", "eof-in-header"}
     /\ header_bytes # <<>>
     /\ ~ValidJson(header_bytes))
        => /\ pc = "done"
           /\ wyStatus = "returned"
           /\ Len(wyResult) = declPayload
           /\ wyResult = Prefix(expected, declPayload)

C5_Witness ==
    /\ lastIo = "newline"
    /\ header_bytes # <<>>
    /\ ~ValidJson(header_bytes)
    /\ wyStatus = "returned"
    /\ wyResult # <<>>

\* C6: no socket is left open when the call has ended, nor between the two
\* connection attempts.
C6_SocketsClosed ==
    /\ openSocks \in 0..1
    /\ pc \in {"done", "fallback"} => openSocks = 0

C6_Witness ==
    /\ pc = "done"
    /\ established = 1
    /\ lastIo = "recv-error"
    /\ openSocks = 0

\* C7 as stated: whatever the configured endpoint, a connection failure is
\* raised only after a second attempt, against port 10200, has failed too.
C7_Original ==
    (pc = "done" /\ wyStatus = "raised" /\ established = 0)
        => /\ Len(attempts) = 2
           /\ attempts[2] = WYOMING_PORT

\* C7 amended: a failed attempt on a configured port other than 10200 is
\* followed by exactly one attempt on 10200; a configured port 10200 is tried
\* once.  A connection failure is raised only when every attempt failed, and
\* at most one connection is established.
C7_FallbackOncePerCall ==
    LET port == ParsePort(url) IN
    /\ established \in 0..1
    /\ Len(attempts) >= 1 => attempts[1] = port
    /\ Len(attempts) >= 2 =>
          /\ Len(attempts) = 2
          /\ port # WYOMING_PORT
          /\ attempts[2] = WYOMING_PORT
    /\ (pc = "done" /\ wyStatus = "raised" /\ established = 0) =>
          attempts = IF port # WYOMING_PORT THEN <<port, WYOMING_PORT>> ELSE <<port>>
    /\ pc \in {"send"} \cup Reading => established = 1

C7_Witness ==
    /\ pc = "done"
    /\ wyStatus = "raised"
    /\ established = 0
    /\ attempts = <<5000, WYOMING_PORT>>

\* C8: an exception of sendall or recv ends the call with an exception: no
\* bytes are returned, no further connection is made, no file is written.
\* Empty Wyoming output is a failure too; no empty audio file is ever stored.
C8_SocketErrorIsFailure ==
    /\ lastIo \in {"send-error", "recv-error"} =>
          /\ pc = "done"
          /\ wyStatus = "raised"
          /\ wyResult = <<>>
          /\ genStatus = "raised"
          /\ ~fileExists
          /\ established = 1
    /\ (wyStatus = "returned" /\ wyResult = <<>>) =>
          (genStatus = "raised" /\ ~fileExists)
    /\ fileExists => fileBytes # <<>>

C8_Witness ==
    /\ lastIo = "recv-error"
    /\ collected # <<>>
    /\ genStatus = "raised"

\* C9: a normal return means every header processed contributed its whole
\* declared payload and had its whole data block consumed.
C9_NoShortenedResult ==
    wyStatus = "returned"
        => /\ Len(wyResult) = declPayload
           /\ readData = declData

\* C10: once a header of type audio-stop is parsed, the client only reads
\* that frame's own blocks and then returns; what the peer formed after the
\* audio-stop frame is not read and is not part of the result.
C10_AudioStopIsTerminal ==
    /\ stopRead =>
          \/ pc \in {"data", "pay"} /\ hdr.typ = "audio-stop"
          \/ pc = "done"
    /\ (wyStatus = "returned" /\ stopRead /\ ~truncated) =>
          (stopReason = "audio-stop" /\ wyResult = expected)

C10_Witness ==
    /\ stopRead
    /\ wyStatus = "returned"
    /\ trailing
    /\ ~truncated
    /\ stream # <<>>
    /\ wyResult # <<>>

\* C19 as stated: once connected, a call ends only on audio-stop, on a
\* malformed header, on the peer closing or on a socket error; a peer that
\* stays connected and silent never ends it.
C19_Original ==
    (pc = "done" /\ established = 1 /\ wyStatus # "none")
        => \/ wyStatus = "returned"
           \/ lastIo \in {"send-error", "recv-error"}
           \/ JsonLoads(header_bytes).res = "scalar"

\* C19 amended: the 6 second timeout set before connect bounds every recv:
\* the client never sits out a timeout period in recv, and when the peer
\* stays connected and silent for that long the call fails with an
\* exception, closes its socket and writes no file.  A call that fails after
\* connecting does so on a socket error, on that timeout, or on a header line
\* that is JSON but no object.
C19_SilentPeerTimesOut ==
    /\ idle = 0
    /\ lastIo = "recv-timeout" =>
          /\ pc = "done"
          /\ wyStatus = "raised"
          /\ genStatus = "raised"
          /\ wyResult = <<>>
          /\ ~fileExists
          /\ openSocks = 0
          /\ ~peerClosed
          /\ stream = <<>>
    /\ (pc = "done" /\ established = 1 /\ wyStatus = "raised") =>
          \/ lastIo \in {"send-error", "recv-error", "recv-timeout"}
          \/ JsonLoads(header_bytes).res = "scalar"

C19_Witness ==
    /\ lastIo = "recv-timeout"
    /\ pc = "done"
    /\ sent >= 1
    /\ collected # <<>>
    /\ ~stopRead

----------------------------------------------------------------------------
\* Properties of the image cache.

\* The table cleanup_lru found: what it left and what it deleted.
LruBefore == cache \cup lru.evicted

Listings(S) ==
    {o \in [1..Cardinality(S) -> S] : \A i, j \in DOMAIN o : i # j => o[i] # o[j]}

Ascending(o) ==
    \A i, j \in DOMAIN o : i < j => o[i].last_accessed <= o[j].last_accessed

RECURSIVE SizeOfFirst(_, _)
SizeOfFirst(o, n) == IF n = 0 THEN 0 ELSE o[n].file_size + SizeOfFirst(o, n - 1)

C12_EvictionRemovesFileAndRecord ==
    lru.ran =>
        \A e \in lru.evicted :
            /\ e \notin cache
            /\ (\A k \in cache : CachedPath(k.url) # CachedPath(e.url))
                  => CachedPath(e.url) \notin files

C18_TieBrokenByInsertionOrder ==
    lru.ran =>
        \A e \in lru.evicted : \A k \in cache :
            e.last_accessed = k.last_accessed => e.id < k.id

----------------------------------------------------------------------------
\* Properties of cache calls that run at the same time.

NoCallUnderWay == \A w \in Tasks : ~Busy(w)

C20_EvictedStaysEvicted ==
    /\ ~revived
    /\ \A e \in cache : e.id \notin gone

----------------------------------------------------------------------------
\* The AnkiCard and AnkiDeck models and the service calls that create them.
\* A str is a sequence of characters, a datetime a time with or without
\* tzinfo.
MaxText == 2      \* longest front, back or deck name
MaxLevel == 2     \* longest cefr_level

RECURSIVE LStrip(_)
RECURSIVE RStrip(_)

\* Sequences over S of length at most n.
SeqsUpTo(S, n) == UNION {[1..k -> S] : k \in 0..n}

TextChars == {" ", "k"}
Texts == SeqsUpTo(TextChars, MaxText)

LevelChars == {"a", "B", "c", "D", "1", "3"}
\* Python's None where a str may stand: equal to no str.
NoneStr == <<"None">>

Levels == {NoneStr} \cup SeqsUpTo(LevelChars, MaxLevel)

IsSpace(c) == c = " "

LStrip(v) == IF v # <<>> /\ IsSpace(Head(v)) THEN LStrip(Tail(v)) ELSE v
RStrip(v) ==
    IF v # <<>> /\ IsSpace(v[Len(v)]) THEN RStrip(SubSeq(v, 1, Len(v) - 1)) ELSE v

\* str.strip()
Strip(v) == RStrip(LStrip(v))

UpperChar(c) ==
    CASE c = "a" -> "A"
      [] c = "c" -> "C"
      [] OTHER -> c

\* str.upper()
Upper(v) == [i \in DOMAIN v |-> UpperChar(v[i])]

\* How a call ends: it returns a value or raises.
Returns(v) == [raised |-> "none", value |-> v]
Raises(e) == [raised |-> e, value |-> None]

Blank_emptyOnly(v) == v = <<>>

\* `not v or not v.strip()`
Blank(v) == v = <<>> \/ Strip(v) = <<>>

\* AnkiCard.fields_must_not_be_empty
FieldsMustNotBeEmpty(v) ==
    IF Blank(v) THEN Raises("InvalidInputError") ELSE Returns(v)

\* AnkiDeck.name_must_not_be_empty
NameMustNotBeEmpty(v) ==
    IF Blank(v) THEN Raises("InvalidInputError") ELSE Returns(v)

\* valid_levels
ValidLevels == {<<"A", "1">>, <<"A", "2">>, <<"B", "1">>, <<"B", "2">>,
                <<"C", "1">>, <<"C", "2">>}

Normalise_asGiven(v) == v

\* `return v.upper()`
Normalise(v) == Upper(v)

\* AnkiCard.validate_cefr_level
ValidateCefrLevel(v) ==
    IF v # NoneStr
    THEN IF Upper(v) \notin ValidLevels
         THEN Raises("InvalidInputError")
         ELSE Returns(Normalise(v))
    ELSE Returns(v)

\* AnkiCard(front=..., back=..., cefr_level=..., audio_metadata=...): the
\* field validators run in the order of the fields; the first exception is
\* the constructor's.
AnkiCard(front, back, cefr_level, audio_metadata) ==
    LET f == FieldsMustNotBeEmpty(front)
        b == FieldsMustNotBeEmpty(back)
        l == ValidateCefrLevel(cefr_level)
    IN IF f.raised # "none" THEN f
       ELSE IF b.raised # "none" THEN b
       ELSE IF l.raised # "none" THEN l
       ELSE Returns([front |-> f.value, back |-> b.value, notes |-> NoneStr,
                     tags |-> <<>>, cefr_level |-> l.value,
                     audio_metadata |-> audio_metadata])

\* AnkiDeck(name=...)
AnkiDeck(name) ==
    LET n == NameMustNotBeEmpty(name)
    IN IF n.raised # "none" THEN n ELSE Returns([name |-> n.value])

\* datetime values: utcnow() has no tzinfo, now(timezone.utc) has.
Datetimes == [t : 0..MaxTime, aware : BOOLEAN]
Utcnow(t) == [t |-> t, aware |-> FALSE]

\* AudioMetadata values, by audio_expires_at.
AudioMetas == {None} \cup {[audio_expires_at |-> e] : e \in {None} \cup Datetimes}

\* a > b on datetimes: TypeError between a naive and an aware one.
DatetimeGt(a, b) ==
    IF a.aware # b.aware THEN Raises("TypeError") ELSE Returns(a.t > b.t)

\* AnkiCard.is_audio_expired
IsAudioExpired(c, utcnow) ==
    IF c.audio_metadata = None \/ c.audio_metadata.audio_expires_at = None
    THEN Returns(FALSE)
    ELSE DatetimeGt(utcnow, c.audio_metadata.audio_expires_at)

\* A call of the AnkiCard constructor.
ConstructCard ==
    /\ UNCHANGED <<audioVars, cacheVars, storeVars>>
    /\ last = NoCall
    /\ \E front \in Texts, back \in Texts, cefr_level \in Levels :
          LET r == AnkiCard(front, back, cefr_level, None) IN
          last' = [op |-> "AnkiCard", front |-> front, back |-> back,
                   cefr_level |-> cefr_level, raised |-> r.raised,
                   value |-> r.value, saved |-> None]

\* A call of the AnkiDeck constructor.
ConstructDeck ==
    /\ UNCHANGED <<audioVars, cacheVars, storeVars>>
    /\ last = NoCall
    /\ \E name \in Texts :
          LET r == AnkiDeck(name) IN
          last' = [op |-> "AnkiDeck", name |-> name, raised |-> r.raised,
                   value |-> r.value, saved |-> None]

\* AnkiService.create_card: the card is built and saved; every exception
\* leaves as a DatabaseOperationError.
CreateCard ==
    /\ UNCHANGED <<audioVars, cacheVars, storeVars>>
    /\ last = NoCall
    /\ \E front \in Texts, back \in Texts :
          LET r == AnkiCard(front, back, NoneStr, None) IN
          last' = [op |-> "create_card", front |-> front, back |-> back,
                   raised |-> IF r.raised # "none" THEN "DatabaseOperationError"
                              ELSE "none",
                   value |-> r.value, saved |-> r.value]

\* AnkiService.create_deck
CreateDeck ==
    /\ UNCHANGED <<audioVars, cacheVars, storeVars>>
    /\ last = NoCall
    /\ \E name \in Texts :
          LET r == AnkiDeck(name) IN
          last' = [op |-> "create_deck", name |-> name,
                   raised |-> IF r.raised # "none" THEN "DatabaseOperationError"
                              ELSE "none",
                   value |-> r.value, saved |-> r.value]

\* card.is_audio_expired() on a card built with the given audio metadata.
IsAudioExpiredCall ==
    /\ UNCHANGED <<audioVars, cacheVars, storeVars>>
    /\ last = NoCall
    /\ \E audio_metadata \in AudioMetas, t \in 0..MaxTime :
          LET c == AnkiCard(<<"k">>, <<"k">>, NoneStr, audio_metadata).value
              r == IsAudioExpired(c, Utcnow(t))
          IN last' = [op |-> "is_audio_expired", audio_metadata |-> audio_metadata,
                      utcnow |-> t, raised |-> r.raised, value |-> r.value]

\* The caller has taken the outcome of its call.
TakeOutcome ==
    /\ UNCHANGED <<audioVars, cacheVars, storeVars>>
    /\ last # NoCall
    /\ last' = NoCall

NextModels ==
    \/ TakeOutcome
    \/ ConstructCard
    \/ ConstructDeck
    \/ CreateCard
    \/ CreateDeck
    \/ IsAudioExpiredCall

\* Calls of the models and of the creating services; no audio call is
\* running and the image cache is not touched.
InitM ==
    /\ InitAudio
    /\ url = "http://127.0.0.1:10200"
    /\ ~fileExists
    /\ InitCache
    /\ InitAnki
SpecModels == InitM /\ [][NextModels]_vars

----------------------------------------------------------------------------
\* Properties of the card and deck models.

\* Empty, or made of whitespace only.
WhitespaceOnly(v) == \A i \in DOMAIN v : v[i] = " "

\* C21: building an AnkiCard with an empty or whitespace-only front or back
\* raises InvalidInputError and gives no card, likewise an AnkiDeck with such
\* a name; create_card and create_deck save no such card or deck.
C21_BlankFieldsRejected ==
    /\ (last.op = "AnkiCard" /\ (WhitespaceOnly(last.front) \/ WhitespaceOnly(last.back)))
          => (last.raised = "InvalidInputError" /\ last.value = None)
    /\ (last.op = "AnkiDeck" /\ WhitespaceOnly(last.name))
          => (last.raised = "InvalidInputError" /\ last.value = None)
    /\ (last.op = "create_card" /\ last.saved # None)
          => (~WhitespaceOnly(last.saved.front) /\ ~WhitespaceOnly(last.saved.back))
    /\ (last.op = "create_deck" /\ last.saved # None)
          => ~WhitespaceOnly(last.saved.name)

\* A card with a proper front and a back of blanks was refused.
C21_Witness ==
    /\ last.op = "AnkiCard"
    /\ last.front = <<"k">>
    /\ last.back = <<" ", " ">>
    /\ last.raised = "InvalidInputError"

\* The spellings of a level in any letter case.
Spellings(level) ==
    {v \in [1..Len(level) -> LevelChars \cup {"A", "C"}] :
        \A i \in DOMAIN v :
            \/ v[i] = level[i]
            \/ level[i] = "A" /\ v[i] = "a"
            \/ level[i] = "C" /\ v[i] = "c"}

C23_AudioExpiredExactlyWhenPast ==
    last.op = "is_audio_expired"
    => /\ last.raised = "none"
       /\ last.value =
             IF last.audio_metadata = None THEN FALSE
             ELSE IF last.audio_metadata.audio_expires_at = None THEN FALSE
             ELSE last.audio_metadata.audio_expires_at.t < last.utcnow

----------------------------------------------------------------------------
\* CEFRService: the votes of the configured models and their consensus.
\* A confidence is counted in halves (0, 0.5, 1.0); a quotient is kept as
\* numerator and denominator.
MaxVotes == 3     \* longest list of votes handed to _calculate_consensus

RECURSIVE LevelWeights(_)
RECURSIVE SumConfidence(_)
RECURSIVE CollectFrom(_, _, _)

VoteLevels == {"A2", "B1", "B2"}
Confidences == {0, 1, 2}
ModelIds == {"m1", "m2", "m3"}

\* A model setting that is not truthy: None or the empty string.
NoModel == ""

\* CEFRVote values.
Votes == [model_id : {"m1"}, level : VoteLevels, confidence : Confidences]

\* level_weights after the loop over the votes: a dict keeps its keys in the
\* order of their first insertion.
LevelWeights(votes) ==
    IF votes = <<>> THEN <<>>
    ELSE LET before == LevelWeights(SubSeq(votes, 1, Len(votes) - 1))
             vote == votes[Len(votes)]
         IN IF \E i \in DOMAIN before : before[i].level = vote.level
            THEN [i \in DOMAIN before |->
                     IF before[i].level = vote.level
                     THEN [before[i] EXCEPT !.weight = @ + vote.confidence]
                     ELSE before[i]]
            ELSE Append(before, [level |-> vote.level, weight |-> vote.confidence])

MaxItem_last(items) ==
    items[CHOOSE i \in DOMAIN items :
             /\ \A j \in DOMAIN items : items[j].weight <= items[i].weight
             /\ \A j \in DOMAIN items : j > i => items[j].weight < items[i].weight]

\* max(level_weights.items(), key=lambda x: x[1]): the first item among
\* those of the largest weight.
MaxItem(items) ==
    items[CHOOSE i \in DOMAIN items :
             /\ \A j \in DOMAIN items : items[j].weight <= items[i].weight
             /\ \A j \in DOMAIN items : j < i => items[j].weight < items[i].weight]

\* sum(v.confidence for v in consensus_votes)
SumConfidence(votes) ==
    IF votes = <<>> THEN 0
    ELSE Head(votes).confidence + SumConfidence(Tail(votes))

\* a / b and a * b on quotients
Quotient(a, b) == [num |-> a, den |-> b]
Times(x, y) == [num |-> x.num * y.num, den |-> x.den * y.den]

\* CEFRService._calculate_consensus
CalculateConsensus(votes) ==
    IF votes = <<>>
    THEN [level |-> "B1", confidence |-> Quotient(0, 1)]
    ELSE LET level_weights == LevelWeights(votes)
             consensus_level == MaxItem(level_weights).level
             IsConsensus(v) == v.level = consensus_level
             consensus_votes == SelectSeq(votes, IsConsensus)
             avg_confidence == Quotient(SumConfidence(consensus_votes),
                                        Len(consensus_votes))
             agreement_factor == Quotient(Len(consensus_votes), Len(votes))
             final_confidence == Times(avg_confidence, agreement_factor)
         IN [level |-> consensus_level, confidence |-> final_confidence]

\* What a model's reply makes of _get_model_vote: a JSON object with level
\* and confidence, text that is not JSON, or an exception on the way.
Replies == {[kind |-> "garbage"], [kind |-> "error"],
            [kind |-> "json", level |-> "B2", confidence |-> 2],
            [kind |-> "json", level |-> "A2", confidence |-> 1]}

OnDecodeError_raise == Raises("JSONDecodeError")

\* `except json.JSONDecodeError: ... return None`
OnDecodeError == Returns(None)

\* CEFRService._get_model_vote
GetModelVote(model_id, reply) ==
    CASE reply.kind = "garbage" -> OnDecodeError
      [] reply.kind = "error" -> Returns(None)
      [] OTHER -> Returns([model_id |-> model_id, level |-> reply.level,
                           confidence |-> reply.confidence])

\* The models _collect_votes asks, in order: the chat model, the large
\* context model unless it is the chat model, the transformation model unless
\* it is one of the two.  
Asked(defaults) ==
    LET chat == defaults[1]
        large == defaults[2]
        transformation == defaults[3]
    IN (IF chat # NoModel THEN <<1>> ELSE <<>>)
       \o (IF large # NoModel /\ large # chat THEN <<2>> ELSE <<>>)
       \o (IF transformation # NoModel /\ transformation \notin {chat, large}
           THEN <<3>> ELSE <<>>)

\* The body of _collect_votes's try block over the models still to ask: the
\* votes, or the exception that left a _get_model_vote call.
CollectFrom(defaults, replies, asked) ==
    IF asked = <<>> THEN Returns(<<>>)
    ELSE LET vote == GetModelVote(defaults[Head(asked)], replies[Head(asked)])
             rest == CollectFrom(defaults, replies, Tail(asked))
         IN IF vote.raised # "none" THEN vote
            ELSE IF rest.raised # "none" THEN rest
            ELSE IF vote.value = None THEN rest
            ELSE Returns(<<vote.value>> \o rest.value)

\* CEFRService._collect_votes: every exception gives the empty list.
CollectVotes(defaults_ok, defaults, replies) ==
    IF ~defaults_ok THEN <<>>
    ELSE LET r == CollectFrom(defaults, replies, Asked(defaults))
         IN IF r.raised # "none" THEN <<>> ELSE r.value

\* How _get_word_frequency_info and _get_cefr_reference_context end: not
\* called, a text, None for nothing found, None after an exception inside.
StepOutcomes == {"off", "text", "nothing", "failed"}

\* What such a step hands to classify_text: the text, or None.
StepValue(outcome) == IF outcome = "text" THEN <<"t">> ELSE NoneStr

\* CEFRService.classify_text: the two steps give the prompt its data, the
\* votes come from the models.
ClassifyText(frequency, context, defaults_ok, defaults, replies) ==
    LET word_frequency_info == StepValue(frequency)
        context_from_sources == StepValue(context)
        votes == CollectVotes(defaults_ok, defaults, replies)
    IN IF votes = <<>>
       THEN Returns([level |-> "B1", confidence |-> Quotient(0, 1), votes |-> <<>>])
       ELSE LET c == CalculateConsensus(votes)
            IN Returns([level |-> c.level, confidence |-> c.confidence,
                        votes |-> votes])

\* A call of _calculate_consensus.
CalculateConsensusCall ==
    /\ UNCHANGED <<audioVars, cacheVars, storeVars>>
    /\ last = NoCall
    /\ \E votes \in SeqsUpTo(Votes, MaxVotes) :
          LET c == CalculateConsensus(votes) IN
          last' = [op |-> "_calculate_consensus", votes |-> votes,
                   level |-> c.level, confidence |-> c.confidence]

\* A call of classify_text.
ClassifyTextCall ==
    /\ UNCHANGED <<audioVars, cacheVars, storeVars>>
    /\ last = NoCall
    /\ \E frequency \in StepOutcomes, context \in StepOutcomes,
          defaults_ok \in BOOLEAN,
          defaults \in [1..3 -> ModelIds \cup {NoModel}],
          replies \in [1..3 -> Replies] :
          /\ ~defaults_ok => /\ defaults = [i \in 1..3 |-> NoModel]
                             /\ replies = [i \in 1..3 |-> [kind |-> "error"]]
          /\ LET r == ClassifyText(frequency, context, defaults_ok, defaults, replies) IN
             last' = [op |-> "classify_text", frequency |-> frequency,
                      context |-> context, defaults_ok |-> defaults_ok,
                      defaults |-> defaults, replies |-> replies,
                      raised |-> r.raised, value |-> r.value]

NextCefr ==
    \/ TakeOutcome
    \/ CalculateConsensusCall
    \/ ClassifyTextCall

\* Calls of the CEFR service; nothing else is running.
InitF ==
    /\ InitAudio
    /\ url = "http://127.0.0.1:10200"
    /\ ~fileExists
    /\ InitCache
    /\ InitAnki
SpecCefr == InitF /\ [][NextCefr]_vars

----------------------------------------------------------------------------
\* Properties of the CEFR service.

\* The places of the votes for a level, and their summed confidence.
PlacesOf(votes, level) == {i \in DOMAIN votes : votes[i].level = level}
RECURSIVE SumAt(_, _)
SumAt(votes, P) ==
    IF P = {} THEN 0
    ELSE LET i == CHOOSE x \in P : TRUE
         IN votes[i].confidence + SumAt(votes, P \ {i})
FirstPlace(votes, level) ==
    CHOOSE i \in PlacesOf(votes, level) : \A j \in PlacesOf(votes, level) : i <= j

RECURSIVE UsableVotes(_, _, _)
UsableVotes(defaults, replies, asked) ==
    IF asked = <<>> THEN <<>>
    ELSE LET i == Head(asked) IN
         (IF replies[i].kind = "json"
          THEN <<[model_id |-> defaults[i], level |-> replies[i].level,
                  confidence |-> replies[i].confidence]>>
          ELSE <<>>) \o UsableVotes(defaults, replies, Tail(asked))

Default == [level |-> "B1", confidence |-> Quotient(0, 1), votes |-> <<>>]

\* C25 as stated: classify_text never raises; it returns the default when no
\* model gives a usable vote and when any step fails; a reply that cannot be
\* parsed costs only that model's vote.
C25_Original ==
    last.op = "classify_text"
    => /\ last.raised = "none"
       /\ ("failed" \in {last.frequency, last.context} \/ ~last.defaults_ok)
             => last.value = Default
       /\ last.value.votes
             = (IF last.defaults_ok
                THEN UsableVotes(last.defaults, last.replies, Asked(last.defaults))
                ELSE <<>>)
       /\ last.value.votes = <<>> => last.value = Default

\* C25: classify_text never raises; it returns the default when no model
\* gives a usable vote and when the vote collection fails; a failure inside
\* the frequency lookup or the reference context leaves that step without a
\* result and the votes are counted all the same; a reply that cannot be
\* parsed costs only that model's vote.
C25_DefaultOnlyWithoutVotes ==
    last.op = "classify_text"
    => /\ last.raised = "none"
       /\ ~last.defaults_ok => last.value = Default
       /\ last.value.votes
             = (IF last.defaults_ok
                THEN UsableVotes(last.defaults, last.replies, Asked(last.defaults))
                ELSE <<>>)
       /\ last.value.votes = <<>> => last.value = Default
       /\ last.value.votes # <<>>
             => /\ last.value.level = CalculateConsensus(last.value.votes).level
                /\ last.value.confidence = CalculateConsensus(last.value.votes).confidence

\* The frequency lookup failed, the first model's reply was not JSON, and
\* the votes of the two other models were counted.
C25_Witness ==
    /\ last.op = "classify_text"
    /\ last.frequency = "failed"
    /\ last.defaults = <<"m1", "m2", "m3">>
    /\ last.replies[1].kind = "garbage"
    /\ Len(last.value.votes) = 2
    /\ last.value.level = "B2"

----------------------------------------------------------------------------
\* The order of the sources of _generate_piper_audio.

----------------------------------------------------------------------------
\* AnkiService.update_card and the edit history of one card.  An edit record
\* is known by its `created` stamp; records are created one after the other.
MaxEdits == 12    \* edit records ever created

KEEP_COUNT == 10  \* cleanup_old_history(card_id, keep_count=10)

\* Values update_card is called with: None leaves the field alone.
NewTexts == {NoneStr, <<"k">>, <<"k", "k">>}
NewTags == {NoneStr, <<>>, <<"t">>}

\* The card the edits are made on, as create_card saved it.
StoredCard == AnkiCard(<<"k">>, <<"k">>, NoneStr, None).value

\* `if tags is not None:`
TagsChange(old, new) == new # NoneStr

\* `if front is not None and front != card.front:`
TextChange(old, new) == new # NoneStr /\ new # old

\* The keys of `changes`.
Changes(c, front, back, notes, tags) ==
    {f \in {"front", "back", "notes", "tags"} :
        \/ f = "front" /\ TextChange(c.front, front)
        \/ f = "back" /\ TextChange(c.back, back)
        \/ f = "notes" /\ TextChange(c.notes, notes)
        \/ f = "tags" /\ TagsChange(c.tags, tags)}

\* The card after the assignments.
Assigned(c, changes, front, back, notes, tags) ==
    [c EXCEPT !.front = IF "front" \in changes THEN front ELSE @,
              !.back = IF "back" \in changes THEN back ELSE @,
              !.notes = IF "notes" \in changes THEN notes ELSE @,
              !.tags = IF "tags" \in changes THEN tags ELSE @]

\* The stamp of the newest record, 0 without records.
MaxCreated(tbl) ==
    IF tbl = {} THEN 0
    ELSE CHOOSE n \in {e.created : e \in tbl} : \A e \in tbl : e.created <= n

\* AnkiCard.add_edit_history: edit.save() creates a record newer than all.
AddEditHistory(tbl) == tbl \cup {[created |-> MaxCreated(tbl) + 1]}

\* The subquery of cleanup_old_history: ORDER BY created DESC LIMIT 1 START
\* $keep_count, the record with keep_count newer ones.
NthNewest(tbl, keep_count) ==
    {e \in tbl : Cardinality({x \in tbl : x.created > e.created}) = keep_count}

\* `created < (...)[0].created`
Older(a, b) == a < b

\* AnkiCardEdit.cleanup_old_history: the DELETE; with no such record the
\* comparison is with NONE and deletes nothing.
CleanupOldHistory(tbl, keep_count) ==
    LET nth == NthNewest(tbl, keep_count)
    IN IF nth = {} THEN tbl
       ELSE {e \in tbl : \A n \in nth : ~Older(e.created, n.created)}

\* AnkiService.update_card
UpdateCard ==
    /\ UNCHANGED <<audioVars, cacheVars, mp3s>>
    /\ card # None
    /\ \E front \in NewTexts, back \in NewTexts, notes \in NewTexts, tags \in NewTags :
          LET changes == Changes(card, front, back, notes, tags)
              differs == {f \in {"front", "back", "notes", "tags"} :
                            Assigned(card, changes, front, back, notes, tags)[f] # card[f]}
          IN /\ card' = Assigned(card, changes, front, back, notes, tags)
             /\ IF changes # {}
                THEN /\ MaxCreated(edits) < MaxEdits
                     /\ edits' = CleanupOldHistory(AddEditHistory(edits), KEEP_COUNT)
                ELSE UNCHANGED edits
             /\ last' = [op |-> "update_card", changes |-> changes,
                         differs |-> differs, added |-> changes # {}]

NextEdits == UpdateCard

\* update_card calls on one stored card; nothing else is running.
InitE ==
    /\ InitAudio
    /\ url = "http://127.0.0.1:10200"
    /\ ~fileExists
    /\ InitCache
    /\ last = NoCall
    /\ card = StoredCard
    /\ edits = {}
    /\ mp3s = {}
SpecEdits == InitE /\ [][NextEdits]_vars

----------------------------------------------------------------------------
\* Properties of the edit history.

\* C27: a card has at most 10 edit-history records, the 10 most recent ones,
\* and update_card adds a record only when one of front, back, notes, tags
\* changes its value.
C27_HistoryKeepsTenMostRecent ==
    /\ Cardinality(edits) <= 10
    /\ \A e \in edits : e.created > MaxCreated(edits) - 10
    /\ (last.op = "update_card" /\ last.added) => last.differs # {}

----------------------------------------------------------------------------
\* The cleanup_anki_files command.  The age of an audio file is counted in
\* units of AUDIO_EXPIRY_DAYS.
AUDIO_EXPIRY == 1     \* timedelta(days=self.AUDIO_EXPIRY_DAYS)

\* Python values told apart by their type.
PyInt(n) == [type |-> "int", v |-> n]
PyNone == [type |-> "NoneType", v |-> 0]

\* The audio files an earlier time has left.
Mp3Files == [name : {"a", "b"}, age : 0..MaxTime]

\* `if file_age > timedelta(days=self.AUDIO_EXPIRY_DAYS)`
ExpiredAudio(dir) == {f \in dir : f.age > AUDIO_EXPIRY}

\* AudioService.cleanup_expired_audio, given the files whose unlink raised:
\* the directory it leaves and the count it returns.
CleanupExpiredAudio(dir, failed) ==
    LET deleted == ExpiredAudio(dir) \ failed
    IN [dir |-> dir \ deleted, value |-> PyInt(Cardinality(deleted))]

\* ImageService.cleanup_expired_cache has no return statement.
ImageCleanupValue(expired, failed) == PyNone

\* CleanupOutput(...): the count fields are declared int.
CleanupOutput(success, audio_files_deleted, image_files_deleted, error_message) ==
    IF audio_files_deleted.type # "int" \/ image_files_deleted.type # "int"
    THEN Raises("ValidationError")
    ELSE Returns([success |-> success,
                  audio_files_deleted |-> audio_files_deleted.v,
                  image_files_deleted |-> image_files_deleted.v,
                  error_message |-> error_message])

\* cleanup_anki_files: the try block builds the output of the two cleanups;
\* every exception gives the failure output.
CleanupAnkiFiles ==
    /\ UNCHANGED <<audioVars, taskVars, ghostVars, now, nextId, card, edits>>
    /\ last = NoCall
    /\ \E cleanup_audio \in BOOLEAN, cleanup_images \in BOOLEAN,
          stat_raises \in BOOLEAN,
          failedAudio \in SUBSET ExpiredAudio(mp3s) :
          LET expired == IF cleanup_images /\ ~(cleanup_audio /\ stat_raises)
                         THEN ExpiredEntries(cache) ELSE {}
          IN
          \E failed \in SUBSET ({CachedPath(e.url) : e \in expired} \cap files) :
             LET audio == IF cleanup_audio
                          THEN CleanupExpiredAudio(mp3s, failedAudio)
                          ELSE [dir |-> mp3s, value |-> PyInt(0)]
                 audio_deleted == audio.value
                 image_deleted == IF cleanup_images
                                  THEN ImageCleanupValue(expired, failed)
                                  ELSE PyInt(0)
                 raised == cleanup_audio /\ stat_raises
                 out == IF raised
                        THEN Raises("OSError")
                        ELSE CleanupOutput(TRUE, audio_deleted, image_deleted, FALSE)
             IN /\ ~cleanup_audio => (~stat_raises /\ failedAudio = {})
                /\ mp3s' = audio.dir
                /\ files' = SweptFiles(files, expired, failed)
                /\ cache' = DeleteAll(cache, SweptRecords(expired, failed))
                /\ last' = [op |-> "cleanup_anki_files",
                            cleanup_audio |-> cleanup_audio,
                            cleanup_images |-> cleanup_images,
                            cleanup_raised |-> raised,
                            audio_removed |-> Cardinality(mp3s \ audio.dir),
                            image_removed |-> Cardinality(files \ SweptFiles(files, expired, failed)),
                            value |-> IF out.raised = "none" THEN out.value
                                      ELSE CleanupOutput(FALSE, PyInt(0), PyInt(0),
                                                         TRUE).value]

NextCleanup ==
    \/ TakeOutcome
    \/ CleanupAnkiFiles

\* The command runs on what earlier calls have left: audio files of several
\* ages, a table of cached images, at some time.
InitK ==
    /\ InitAudio
    /\ url = "http://127.0.0.1:10200"
    /\ ~fileExists
    /\ cache \in EarlierTables
    /\ files = {CachedPath(r.url) : r \in cache}
    /\ nextId = Cardinality(cache) + 1
    /\ now \in 0..MaxTime
    /\ lru = NoLru
    /\ got = NoGet
    /\ put = NoPut
    /\ swept = NoSweep
    /\ wk = [w \in Tasks |-> Idle]
    /\ calls = 0
    /\ gone = {}
    /\ over = FALSE
    /\ revived = FALSE
    /\ overlapped = FALSE
    /\ last = NoCall
    /\ card = None
    /\ edits = {}
    /\ mp3s \in SUBSET Mp3Files
    /\ \A f, g \in mp3s : f.name = g.name => f = g
SpecCleanup == InitK /\ [][NextCleanup]_vars

\* C30: when no cleanup raises the command returns success=True with the
\* numbers of audio and image files removed, for every combination of
\* cleanup_audio and cleanup_images; it returns success=False with both
\* counts 0 and an error message only when a cleanup raised.
C30_CountsReportedUnlessRaised ==
    last.op = "cleanup_anki_files"
    => /\ ~last.cleanup_raised
             => /\ last.value.success
                /\ last.value.audio_files_deleted = last.audio_removed
                /\ last.value.image_files_deleted = last.image_removed
       /\ ~last.value.success
             => /\ last.cleanup_raised
                /\ last.value.audio_files_deleted = 0
                /\ last.value.image_files_deleted = 0
                /\ last.value.error_message

----------------------------------------------------------------------------
\* Records and files of the image cache.

\* C28: every record's cached_path names a file on disk and every cached
\* file has a record: a record and its file are removed together.
C28_RecordsAndFilesGoTogether ==
    /\ \A r \in cache : CachedPath(r.url) \in files
    /\ \A f \in files : \E r \in cache : CachedPath(r.url) = f

====
